---------------------------- MODULE Spec2Model ----------------------------
(***************************************************************************)
(* A model of ripunzip's seekable shared readers:                          *)
(*   - SeekableHttpReaderEngine / SeekableHttpReader                       *)
(*     (src/src/unzip/seekable_http_reader.rs), and                        *)
(*   - CloneableSeekableReader over a local file (src/src/main.rs).        *)
(*                                                                         *)
(* Every handle is driven by its own thread.  A step of the model is one   *)
(* stretch of code between two points where a thread can block (a mutex    *)
(* acquisition or the condition variable) or return.                       *)
(*                                                                         *)
(* Option<T> values are sets: None is {} and Some(x) is {x}.               *)
(* A u64 handle position is an integer p: p >= 0 is the value p, p < 0 is  *)
(* the value 2^64 + p that wrapping arithmetic produces.                   *)
(***************************************************************************)
EXTENDS Integers, Sequences, FiniteSets, TLC

\* ------------------------------------------------------------- bounds

\* Length of the resource (RangeFetcher::len, the Content-Length).
len == 5

\* Reads and access-pattern changes started in one run of Spec.
MaxOps == 2

\* Reads and seeks started in one run of SeekSpec.
SeekOps == 2

\* Reads started in one run of LiveSpec.
LiveOps == 2

\* Reads started in one run of SeqSpec.
SeqOps == 6

\* Reads and access-pattern changes started in one run of SoloSpec.
SoloOps == 3

\* Handles (threads) in one run.
NumHandles == 2

\* MAX_BLOCK of the source is 1 MiB; the model scales it to two bytes, all
\* block arithmetic being relative to it.
MAX_BLOCK == 2

\* ------------------------------------------------------------- inputs

Handles == 1..NumHandles

\* Buffer lengths passed to read: empty, shorter than a block, longer.
BufLens == {0, 1, MAX_BLOCK + 1}

\* readahead_limit arguments of SeekableHttpReaderEngine::new.
None == {}

Some(x) == {x}

Unwrap(o) == CHOOSE x \in o : TRUE

ReadaheadLimits == {None, Some(1), Some(2 * MAX_BLOCK)}

AccessPatterns == {"RandomAccess", "SequentialIsh"}

\* The bytes of the resource: byte i of the body is Resource[i + 1].
Resource == [i \in 1..len |-> 47 + i]

\* Bytes [from, from + n) of the resource.
Bytes(from, n) == [i \in 1..n |-> Resource[from + i]]

Min(a, b) == IF a < b THEN a ELSE b

Max(a, b) == IF a > b THEN a ELSE b

MinOf(S) == CHOOSE x \in S : \A y \in S : x <= y

\* ------------------------------------------------------------- State

CacheCell_new(data) == [data |-> data, bytes_read |-> 0]

entirely_consumed(cell) == cell.bytes_read >= Len(cell.data)

SeekableHttpReaderStatistics ==
    [num_http_streams |-> 0, cache_hits |-> 0, cache_misses |-> 0,
     cache_shrinks |-> 0]

State_new(readahead_limit, access_pattern) ==
    [access_pattern   |-> access_pattern,
     readahead_limit  |-> IF readahead_limit = None THEN None
                          ELSE IF Unwrap(readahead_limit) > MAX_BLOCK
                               THEN readahead_limit
                               ELSE Some(MAX_BLOCK),
     current_size     |-> 0,
     cache            |-> << >>,
     read_in_progress |-> FALSE,
     stats            |-> SeekableHttpReaderStatistics]

CacheRemove(cache, key) == [k \in DOMAIN cache \ {key} |-> cache[k]]

CachePut(cache, key, cell) ==
    [k \in DOMAIN cache \cup {key} |-> IF k = key THEN cell ELSE cache[k]]

\* A fault: the shrink loop does not deduct the length of what it removes.
RECURSIVE Shrink_without_deduct(_, _)
Shrink_without_deduct(st, limit) ==
    IF st.current_size > limit /\ DOMAIN st.cache # {}
    THEN LET pos == MinOf(DOMAIN st.cache)
         IN  Shrink_without_deduct(
                 [st EXCEPT !.stats.cache_shrinks = @ + 1,
                            !.cache = CacheRemove(@, pos)],
                 limit)
    ELSE st

\* The shrink loop of State::insert.  The loop body removes nothing when the
\* cache is empty; the recursion stops there and insert_spins tells whether
\* the loop would go on.
RECURSIVE Shrink(_, _)
Shrink(st, limit) ==
    IF st.current_size > limit /\ DOMAIN st.cache # {}
    THEN LET pos   == MinOf(DOMAIN st.cache)
             block == st.cache[pos]
         IN  Shrink([st EXCEPT !.stats.cache_shrinks = @ + 1,
                               !.cache = CacheRemove(@, pos),
                               !.current_size = @ - Len(block.data)],
                    limit)
    ELSE st

\* A fault: insert without its shrink loop.
insert_without_shrink(st, pos, block) ==
    [st EXCEPT !.cache = CachePut(@, pos, CacheCell_new(block)),
               !.current_size = @ + Len(block)]

insert(st, pos, block) ==
    LET st1 == [st EXCEPT !.cache = CachePut(@, pos, CacheCell_new(block)),
                          !.current_size = @ + Len(block)]
    IN  IF st1.readahead_limit = None THEN st1
        ELSE Shrink(st1, Unwrap(st1.readahead_limit))

insert_spins(st, pos, block) ==
    LET st2 == insert(st, pos, block)
    IN  st2.readahead_limit # None
        /\ st2.current_size > Unwrap(st2.readahead_limit)

\* A fault: the copy starts at the head of the block, not at block_offset.
copy_from_block_start(block, block_offset, to_read) ==
    SubSeq(block.data, 1, to_read)

\* buf[..to_read].copy_from_slice(&block.data[block_offset..to_read_end]).
copy_from_slice(block, block_offset, to_read) ==
    SubSeq(block.data, block_offset + 1, block_offset + to_read)

\* A fault: the lookup visits the key pos alone.
range_start_at_pos(pos) == pos

\* Line 165: the smallest key the lookup visits, pos - min(pos, MAX_BLOCK).
range_start(pos) == pos - Min(pos, MAX_BLOCK)

\* A fault: the lookup serves the covering block with the greatest key.
last_covering(covering) ==
    CHOOSE k \in covering : \A j \in covering : j <= k

\* Lines 164-192: the range iterator is ascending and the loop breaks at the
\* first block that extends beyond pos, the covering block of smallest key.
first_covering(covering) == MinOf(covering)

\* State::read_from_cache: the new State, the Option<usize> returned and the
\* bytes copied into buf[..to_read].  The range iterator visits the keys of
\* [pos - min(pos, MAX_BLOCK), pos] in ascending order and the loop breaks at
\* the first block that extends beyond pos.
read_from_cache(st, pos, buf_len) ==
    LET lo       == range_start(pos)
        covering == {k \in DOMAIN st.cache :
                        /\ lo <= k
                        /\ k <= pos
                        /\ pos - k < Len(st.cache[k].data)}
    IN  IF covering = {}
        THEN [state |-> st, ret |-> None, data |-> << >>]
        ELSE LET start        == first_covering(covering)
                 block        == st.cache[start]
                 block_len    == Len(block.data)
                 block_offset == pos - start
                 to_read      == Min(buf_len, block_len - block_offset)
                 read_block   == [block EXCEPT !.bytes_read = @ + to_read]
                 discard      == st.access_pattern = "SequentialIsh"
                                 /\ entirely_consumed(read_block)
             IN  [state |-> [st EXCEPT
                        !.stats.cache_hits = @ + 1,
                        !.current_size = IF discard THEN @ - block_len ELSE @,
                        !.cache = IF discard THEN CacheRemove(@, start)
                                  ELSE [@ EXCEPT ![start] = read_block]],
                  ret   |-> Some(to_read),
                  data  |-> copy_from_slice(block, block_offset, to_read)]

\* ------------------------------------------------------------- state

VARIABLES
    kind,         \* "http": SeekableHttpReader handles; "file": CloneableSeekableReader
    limit_arg,    \* the readahead_limit argument the engine was constructed with
    state,        \* SeekableHttpReaderEngine.state: the State behind its mutex
    reader,       \* ReadingMaterials.reader: Option<(response, reader pos)>
    state_lock,   \* Option: the holder of the state mutex between two steps
    reader_lock,  \* Option: the holder of the reader mutex
    poisoned,     \* a thread panicked while it held the state mutex
    file,         \* the Mutex<R> of CloneableSeekableReader: its holder, R's cursor
    handles,      \* the handles created so far
    hpos,         \* SeekableHttpReader.pos / CloneableSeekableReader.pos
    file_length,  \* CloneableSeekableReader.file_length
    pc,           \* where each handle's thread stands
    call,         \* the locals of each handle's read in flight
    last,         \* the call that returned last, and what it returned
    hist          \* history: operations left, responses opened and discarded

vars == <<kind, limit_arg, state, reader, state_lock, reader_lock, poisoned,
          file, handles, hpos, file_length, pc, call, last, hist>>

engine_vars == <<limit_arg, state, reader, state_lock, reader_lock, poisoned>>

NoCall == [pos |-> 0, buf |-> 0, reader_created |-> FALSE, new_block |-> << >>,
           bytes_read |-> 0, data |-> << >>]

\* hist counts what the run has done: left is the number of operations it may
\* still start; rewinds the live responses reads discarded because pos was
\* below the reader pos; opened the responses reads opened; lost those of them
\* whose read ended in an error or a panic; switches the calls that changed the
\* access pattern to SequentialIsh; reopens those of them whose fetch_range(0)
\* succeeded.
\*
\* A call's outcome: h is the handle; op is "none", "read", "seek" or "clone";
\* result is "ok" or the error kind; start is the handle's position when the
\* call was made; n is the Ok value; data is what a read left in buf[..n]; via
\* is the exit taken.
Ret(h, op, result, start, n, data, via) ==
    [h |-> h, op |-> op, result |-> result, start |-> start, n |-> n,
     data |-> data, via |-> via]

InitWith(ops) ==
    /\ kind \in {"http", "file"}
    /\ limit_arg \in (IF kind = "http" THEN ReadaheadLimits ELSE {None})
    /\ \E access_pattern \in
            (IF kind = "http" THEN AccessPatterns ELSE {"RandomAccess"}) :
          state = State_new(limit_arg, access_pattern)
    /\ reader = None
    /\ state_lock = None
    /\ reader_lock = None
    /\ poisoned = FALSE
    /\ file = [lock |-> None, cursor |-> 0]
    /\ handles = {1}
    /\ hpos = [h \in Handles |-> 0]
    /\ file_length = [h \in Handles |-> None]
    /\ pc = [h \in Handles |-> "idle"]
    /\ call = [h \in Handles |-> NoCall]
    /\ last = Ret(1, "none", "ok", 0, 0, << >>, "none")
    /\ hist = [left |-> ops, rewinds |-> 0, opened |-> 0, lost |-> 0,
               switches |-> 0, reopens |-> 0, served |-> {}]

Init == InitWith(MaxOps)

\* ------------------------------------------------------------- engine.read

\* Condvar::notify_all: every thread in wait() is made runnable.
notify_all(p) == [h \in Handles |-> IF p[h] = "cv_wait" THEN "cv_woken" ELSE p[h]]

\* A fault: the end test is off by one.
beyond_end_of_stream_strictly(pos) == pos > len

\* Line 323: the test for a read at the very end of the resource.
beyond_end_of_stream(pos) == pos = len

\* A fault: a thread that missed the cache never waits.
read_in_progress_ignored(st) == FALSE

\* Line 339: what a thread that missed the cache reads to decide on waiting.
read_in_progress(st) == st.read_in_progress

\* A fault: every read counts a stream, created or not.
count_stream_always(stats, reader_created) ==
    [stats EXCEPT !.num_http_streams = @ + 1]

\* Lines 412-414: a read that created a response counts it once it is served.
count_stream(stats, reader_created) ==
    IF reader_created THEN [stats EXCEPT !.num_http_streams = @ + 1] ELSE stats

\* A fault: a response is also discarded when its reader pos is at pos.
needs_rewind_at_reader_pos(pos, readerpos) == pos <= readerpos

\* Line 362: a live response whose reader pos is beyond pos cannot serve pos.
needs_rewind(pos, readerpos) == pos < readerpos

\* A fault: every response is opened at offset 0.
fetch_range_from_zero(pos) == [stream |-> 0, pos |-> 0]

\* Lines 376-383: the response fetch_range(pos) opens, and its reader pos.
fetch_range(pos) == [stream |-> pos, pos |-> pos]

\* SeekableHttpReader::read on a handle that stands at pos, to the first lock
\* of engine.read (lines 506-331).  The caller keeps to the precondition
\* pos <= len.
StartRead(h, pos, buf) ==
    /\ kind = "http"
    /\ h \in handles
    /\ pc[h] = "idle"
    /\ hist.left > 0
    /\ pos >= 0
    /\ pos <= len
    /\ hist' = [hist EXCEPT !.left = @ - 1]
    /\ hpos' = [hpos EXCEPT ![h] = pos]
    /\ IF beyond_end_of_stream(pos)
       THEN /\ last' = Ret(h, "read", "UnexpectedEof", pos, 0, << >>, "eof")
            /\ UNCHANGED <<pc, call>>
       ELSE /\ pc' = [pc EXCEPT ![h] = "lock_state"]
            /\ call' = [call EXCEPT ![h] = [NoCall EXCEPT !.pos = pos,
                                                          !.buf = buf]]
            /\ UNCHANGED last
    /\ UNCHANGED <<kind, engine_vars, file, handles, file_length>>

\* read(buf) at the handle's position.
ReadBegin(h, buf) == StartRead(h, hpos[h], buf)

\* seek(SeekFrom::Start(pos)) directly followed by read(buf) on the same
\* handle; the seek touches nothing but the handle (see HttpSeek).
SeekAndRead(h, pos, buf) == StartRead(h, pos, buf)

\* The offsets of the resource whose bytes a lookup at pos that returned ret
\* has copied into the caller's buffer (line 180).
served_by(pos, ret) == pos..(pos + Unwrap(ret) - 1)

\* Lines 331-358 with the state mutex held: the lookup, then the wait or the
\* claim of the fetcher role.  via names the lookup: "immediate" or "deferred".
CacheOrClaim(h, via) ==
    /\ state_lock = None
    /\ IF poisoned
       THEN /\ pc' = [pc EXCEPT ![h] = "panicked"]
            /\ last' = Ret(h, "read", "panic", call[h].pos, 0, << >>, via)
            /\ call' = [call EXCEPT ![h] = NoCall]
            /\ UNCHANGED <<state, state_lock, hpos, hist>>
       ELSE LET r == read_from_cache(state, call[h].pos, call[h].buf)
            IN  IF r.ret # None
                THEN /\ state' = r.state
                     /\ pc' = [pc EXCEPT ![h] = "idle"]
                     /\ hpos' = [hpos EXCEPT ![h] = @ + Unwrap(r.ret)]
                     /\ last' = Ret(h, "read", "ok", call[h].pos,
                                    Unwrap(r.ret), r.data, via)
                     /\ call' = [call EXCEPT ![h] = NoCall]
                     /\ hist' = [hist EXCEPT !.served =
                                   @ \cup served_by(call[h].pos, r.ret)]
                     /\ UNCHANGED state_lock
                ELSE IF read_in_progress(state)
                THEN /\ pc' = [pc EXCEPT ![h] = "cv_wait"]
                     /\ UNCHANGED <<state, state_lock, hpos, last, call,
                                    hist>>
                ELSE /\ state' = [state EXCEPT !.stats.cache_misses = @ + 1,
                                               !.read_in_progress = TRUE]
                     /\ state_lock' = Some(h)
                     /\ pc' = [pc EXCEPT ![h] = "lock_reader"]
                     /\ UNCHANGED <<hpos, last, call, hist>>
    /\ UNCHANGED <<kind, limit_arg, reader, reader_lock, poisoned, file,
                   handles, file_length>>

CheckCache(h) ==
    /\ pc[h] = "lock_state"
    /\ CacheOrClaim(h, "immediate")

\* A fault: a woken thread does not look into the cache again.
Recheck_without_lookup(h) ==
    /\ pc[h] = "cv_woken"
    /\ state_lock = None
    /\ ~poisoned
    /\ IF read_in_progress(state)
       THEN /\ pc' = [pc EXCEPT ![h] = "cv_wait"]
            /\ UNCHANGED <<state, state_lock>>
       ELSE /\ state' = [state EXCEPT !.stats.cache_misses = @ + 1,
                                      !.read_in_progress = TRUE]
            /\ state_lock' = Some(h)
            /\ pc' = [pc EXCEPT ![h] = "lock_reader"]
    /\ UNCHANGED <<kind, limit_arg, reader, reader_lock, poisoned, file,
                   handles, hpos, file_length, call, last, hist>>

\* Condvar::wait returns once the thread was notified and has the mutex again.
Recheck(h) ==
    /\ pc[h] = "cv_woken"
    /\ CacheOrClaim(h, "deferred")

\* Condvar::wait may also return with no notification.
SpuriousWakeup(h) ==
    /\ pc[h] = "cv_wait"
    /\ pc' = [pc EXCEPT ![h] = "cv_woken"]
    /\ UNCHANGED <<kind, engine_vars, file, handles, hpos, file_length, call,
                   last, hist>>

\* A fault: the fetcher keeps the state guard after taking the reader mutex.
LockReaderKeepsState(h) ==
    /\ pc[h] = "lock_reader"
    /\ reader_lock = None
    /\ reader_lock' = Some(h)
    /\ pc' = [pc EXCEPT ![h] = "open"]
    /\ UNCHANGED <<kind, limit_arg, state, reader, state_lock, poisoned, file,
                   handles, hpos, file_length, call, last, hist>>

\* Lines 356-358: the fetcher takes the reader mutex, then drops the state guard.
LockReader(h) ==
    /\ pc[h] = "lock_reader"
    /\ reader_lock = None
    /\ reader_lock' = Some(h)
    /\ state_lock' = None
    /\ pc' = [pc EXCEPT ![h] = "open"]
    /\ UNCHANGED <<kind, limit_arg, state, reader, poisoned, file, handles,
                   hpos, file_length, call, last, hist>>

\* Lines 361-384: the rewind check and, with no live response, fetch_range(pos),
\* which succeeds or fails as the network decides.  The response opened at
\* offset o delivers the resource's bytes from o on: stream is the offset of
\* its next byte, pos the reader pos the engine keeps beside it.  fetch_range
\* yields one of the outcomes in may_succeed.
create_reader(h, may_succeed) ==
    /\ pc[h] = "open"
    /\ LET rewind == reader # None
                        /\ needs_rewind(call[h].pos, Unwrap(reader).pos)
           kept   == IF rewind THEN None ELSE reader
       IN  IF kept # None
           THEN /\ pc' = [pc EXCEPT ![h] = "ff"]
                /\ UNCHANGED <<reader, reader_lock, call, last, hist>>
           ELSE \E ok \in may_succeed :
                  IF ok
                  THEN /\ reader' = Some(fetch_range(call[h].pos))
                       /\ call' = [call EXCEPT ![h].reader_created = TRUE]
                       /\ pc' = [pc EXCEPT ![h] = "ff"]
                       /\ hist' = [hist EXCEPT
                                     !.rewinds = @ + (IF rewind THEN 1 ELSE 0),
                                     !.opened = @ + 1]
                       /\ UNCHANGED <<reader_lock, last>>
                  ELSE /\ reader' = None
                       /\ reader_lock' = None
                       /\ pc' = [pc EXCEPT ![h] = "idle"]
                       /\ last' = Ret(h, "read", "Unsupported", call[h].pos, 0,
                                      << >>, "open_failed")
                       /\ hist' = [hist EXCEPT
                                     !.rewinds = @ + (IF rewind THEN 1 ELSE 0)]
                       /\ call' = [call EXCEPT ![h] = NoCall]
    /\ UNCHANGED <<kind, limit_arg, state, state_lock, poisoned, file, handles,
                   hpos, file_length>>

OpenStream(h) == create_reader(h, BOOLEAN)

\* A fault: the loop test is strict.
fast_forward_needed_strictly(pos, reader_pos) == pos > reader_pos

\* Line 390: the test of the fast-forward loop, while pos >= *reader_pos.
fast_forward_needed(pos, reader_pos) == pos >= reader_pos

\* Lines 390-395: the loop test and read_exact of the next block, with the
\* reader mutex held and the state mutex not held.  read_exact yields one of
\* the outcomes in may_succeed.
read_exact(h, may_succeed) ==
    /\ pc[h] = "ff"
    /\ LET r       == Unwrap(reader)
           to_read == Min(MAX_BLOCK, len - r.pos)
       IN  IF fast_forward_needed(call[h].pos, r.pos)
           THEN \E ok \in may_succeed :
                  IF ok /\ r.stream + to_read <= len
                  THEN /\ call' = [call EXCEPT ![h].new_block =
                                                  Bytes(r.stream, to_read)]
                       /\ reader' = Some([r EXCEPT !.stream = @ + to_read])
                       /\ pc' = [pc EXCEPT ![h] = "ff_insert"]
                       /\ UNCHANGED <<reader_lock, last, hist>>
                  ELSE /\ reader_lock' = None
                       /\ pc' = [pc EXCEPT ![h] = "idle"]
                       /\ last' = Ret(h, "read", "io", call[h].pos, 0, << >>,
                                      "read_failed")
                       /\ hist' = [hist EXCEPT !.lost = @ +
                                     (IF call[h].reader_created THEN 1 ELSE 0)]
                       /\ call' = [call EXCEPT ![h] = NoCall]
                       /\ UNCHANGED reader
           ELSE /\ pc' = [pc EXCEPT ![h] = "final"]
                /\ UNCHANGED <<reader, reader_lock, call, last, hist>>
    /\ UNCHANGED <<kind, limit_arg, state, state_lock, poisoned, file, handles,
                   hpos, file_length>>

FastForward(h) == read_exact(h, BOOLEAN)

\* state.lock().unwrap() of the fetcher on a poisoned state mutex: the thread
\* panics and its reader guard is dropped.
unwrap_panics(h) ==
    /\ pc' = [pc EXCEPT ![h] = "panicked"]
    /\ reader_lock' = None
    /\ last' = Ret(h, "read", "panic", call[h].pos, 0, << >>, "poisoned")
    /\ hist' = [hist EXCEPT !.lost = @ +
                  (IF call[h].reader_created THEN 1 ELSE 0)]
    /\ call' = [call EXCEPT ![h] = NoCall]
    /\ UNCHANGED <<state, reader, state_lock, poisoned>>

\* Lines 397-401 with the state mutex held: insert, notify_all, advance.  A
\* shrink loop that cannot end keeps the thread inside insert, with the mutex.
InsertBlock(h) ==
    /\ pc[h] = "ff_insert"
    /\ state_lock = None
    /\ LET r == Unwrap(reader)
       IN  IF poisoned
           THEN unwrap_panics(h)
           ELSE IF insert_spins(state, r.pos, call[h].new_block)
           THEN /\ state' = insert(state, r.pos, call[h].new_block)
                /\ state_lock' = Some(h)
                /\ pc' = [pc EXCEPT ![h] = "insert_spin"]
                /\ UNCHANGED <<reader, reader_lock, poisoned, call, last, hist>>
           ELSE /\ state' = insert(state, r.pos, call[h].new_block)
                /\ pc' = [notify_all(pc) EXCEPT ![h] = "ff"]
                /\ reader' = Some([r EXCEPT
                                     !.pos = @ + Len(call[h].new_block)])
                /\ call' = [call EXCEPT ![h].new_block = << >>]
                /\ UNCHANGED <<state_lock, reader_lock, poisoned, last, hist>>
    /\ UNCHANGED <<kind, limit_arg, file, handles, hpos, file_length>>

\* Lines 407-416 with the state mutex held: the final lookup, whose expect()
\* panics on None and poisons both mutexes, the stream count and the end of
\* the fetcher role.
FinalLookup(h) ==
    /\ pc[h] = "final"
    /\ state_lock = None
    /\ LET r == read_from_cache(state, call[h].pos, call[h].buf)
       IN  IF poisoned
           THEN unwrap_panics(h)
           ELSE IF r.ret = None
           THEN /\ poisoned' = TRUE
                /\ pc' = [pc EXCEPT ![h] = "panicked"]
                /\ reader_lock' = None
                /\ last' = Ret(h, "read", "panic", call[h].pos, 0, << >>,
                               "fetched")
                /\ hist' = [hist EXCEPT !.lost = @ +
                              (IF call[h].reader_created THEN 1 ELSE 0)]
                /\ call' = [call EXCEPT ![h] = NoCall]
                /\ UNCHANGED <<state, reader, state_lock>>
           ELSE /\ state' = [r.state EXCEPT
                       !.stats = count_stream(@, call[h].reader_created),
                       !.read_in_progress = FALSE]
                /\ call' = [call EXCEPT ![h].bytes_read = Unwrap(r.ret),
                                        ![h].data = r.data]
                /\ pc' = [pc EXCEPT ![h] = "unlock_reader"]
                /\ hist' = [hist EXCEPT !.served =
                              @ \cup served_by(call[h].pos, r.ret)]
                /\ UNCHANGED <<reader, state_lock, poisoned, reader_lock,
                               last>>
    /\ UNCHANGED <<kind, limit_arg, file, handles, hpos, file_length>>

\* A fault: the handle does not advance by what a fetching read returned.
UnlockReaderNoAdvance(h) ==
    /\ pc[h] = "unlock_reader"
    /\ reader_lock' = None
    /\ pc' = [pc EXCEPT ![h] = "idle"]
    /\ last' = Ret(h, "read", "ok", call[h].pos, call[h].bytes_read,
                   call[h].data, "fetched")
    /\ call' = [call EXCEPT ![h] = NoCall]
    /\ UNCHANGED <<kind, limit_arg, state, reader, state_lock, poisoned, file,
                   handles, hpos, file_length, hist>>

\* Lines 417-419 and 508-509: the state guard was dropped, the reader guard is
\* dropped, Ok(bytes_read) is returned and the handle advances.
UnlockReader(h) ==
    /\ pc[h] = "unlock_reader"
    /\ reader_lock' = None
    /\ pc' = [pc EXCEPT ![h] = "idle"]
    /\ hpos' = [hpos EXCEPT ![h] = @ + call[h].bytes_read]
    /\ last' = Ret(h, "read", "ok", call[h].pos, call[h].bytes_read,
                   call[h].data, "fetched")
    /\ call' = [call EXCEPT ![h] = NoCall]
    /\ UNCHANGED <<kind, limit_arg, state, reader, state_lock, poisoned, file,
                   handles, file_length, hist>>

\* ------------------------------------------------------------- engine, handles

\* SeekableHttpReaderEngine::set_expected_access_pattern, called as its
\* documentation demands: while no thread is inside a read.  The panic of line
\* 442 happens with the state guard held and poisons the mutex; on a poisoned
\* mutex the call panics at once and changes nothing.
set_expected_access_pattern(access_pattern) ==
    /\ kind = "http"
    /\ \A h \in Handles : pc[h] \in {"idle", "panicked"}
    /\ ~poisoned
    /\ hist.left > 0
    /\ state.access_pattern # access_pattern
    /\ IF access_pattern = "SequentialIsh"
       THEN IF state.read_in_progress
            THEN /\ poisoned' = TRUE
                 /\ hist' = [hist EXCEPT !.left = @ - 1]
                 /\ UNCHANGED <<state, reader>>
            ELSE \E ok \in BOOLEAN :
                   /\ reader' = IF ok THEN Some(fetch_range(0))
                                ELSE reader
                   /\ state' = [state EXCEPT
                                  !.stats.num_http_streams = @ + 1,
                                  !.access_pattern = access_pattern]
                   /\ hist' = [hist EXCEPT !.left = @ - 1,
                                  !.switches = @ + 1,
                                  !.reopens = @ + (IF ok THEN 1 ELSE 0)]
                   /\ UNCHANGED poisoned
       ELSE /\ state' = [state EXCEPT !.access_pattern = access_pattern]
            /\ hist' = [hist EXCEPT !.left = @ - 1]
            /\ UNCHANGED <<reader, poisoned>>
    /\ UNCHANGED <<kind, limit_arg, state_lock, reader_lock, file, handles,
                   hpos, file_length, pc, call, last>>

\* A fault: a clone that starts at 0, as a new handle does.
CloneAtZero(h, new) ==
    /\ h \in handles
    /\ pc[h] = "idle"
    /\ new \notin handles
    /\ handles' = handles \cup {new}
    /\ hpos' = [hpos EXCEPT ![new] = 0]
    /\ file_length' = [file_length EXCEPT ![new] = file_length[h]]
    /\ last' = Ret(new, "clone", "ok", hpos[h], 0, << >>, "none")
    /\ UNCHANGED <<kind, engine_vars, file, pc, call, hist>>

\* #[derive(Clone)] of SeekableHttpReader and Clone of CloneableSeekableReader:
\* the new handle copies pos (and file_length) and shares the engine or file.
Clone(h, new) ==
    /\ h \in handles
    /\ pc[h] = "idle"
    /\ new \notin handles
    /\ handles' = handles \cup {new}
    /\ hpos' = [hpos EXCEPT ![new] = hpos[h]]
    /\ file_length' = [file_length EXCEPT ![new] = file_length[h]]
    /\ last' = Ret(new, "clone", "ok", hpos[h], 0, << >>, "none")
    /\ UNCHANGED <<kind, engine_vars, file, pc, call, hist>>

\* Positions a handle is moved to, and the SeekFrom arguments tried.
Positions == (0 - 1)..(len + 1)

SeekFroms ==
    [from : {"Start"}, off : 0..(len + 1)]
        \cup [from : {"End"}, off : (0 - (len + 1))..1]
        \cup [from : {"Current"}, off : (0 - (len + 1))..1]

\* u64 arithmetic on positions.  The sum a + b (b possibly negative) leaves
\* the u64 range when it crosses 0 or 2^64, which in this representation is a
\* change of sign.  With overflow checks compiled in the operation panics,
\* without them it wraps.
Overflows(a, b) == (a >= 0) # (a + b >= 0)

\* The match of SeekableHttpReader::seek (lines 482-500): the result, the
\* position computed and whether computing it overflowed.
HttpSeekTarget(pos, seek) ==
    CASE seek.from = "Start" ->
            [result |-> "ok", pos |-> seek.off, overflow |-> FALSE]
      [] seek.from = "End" ->
            IF 0 - seek.off > len
            THEN [result |-> "Unsupported", pos |-> pos, overflow |-> FALSE]
            ELSE [result |-> "ok", pos |-> len + seek.off,
                  overflow |-> seek.off > 0]
      [] seek.from = "Current" ->
            [result |-> "ok", pos |-> pos + seek.off,
             overflow |-> Overflows(pos, seek.off)]

\* impl Seek for SeekableHttpReader.  A seek touches the handle only.
HttpSeek(h, seek) ==
    /\ kind = "http"
    /\ h \in handles
    /\ pc[h] = "idle"
    /\ hist.left > 0
    /\ hist' = [hist EXCEPT !.left = @ - 1]
    /\ LET t == HttpSeekTarget(hpos[h], seek)
       IN  /\ t.pos \in Positions
           /\ \E overflow_checks \in BOOLEAN :
                IF t.overflow /\ overflow_checks
                THEN /\ pc' = [pc EXCEPT ![h] = "panicked"]
                     /\ last' = Ret(h, "seek", "panic", hpos[h], 0, << >>,
                                    seek.from)
                     /\ UNCHANGED hpos
                ELSE /\ hpos' = [hpos EXCEPT ![h] = t.pos]
                     /\ last' = Ret(h, "seek", t.result, hpos[h], t.pos, << >>,
                                    seek.from)
                     /\ UNCHANGED pc
    /\ UNCHANGED <<kind, engine_vars, file, handles, file_length, call>>

\* ------------------------------------------------------------- CloneableSeekableReader

\* A fault: the read proceeds without waiting for the file mutex.
FileStartReadUnlocked(h, pos, buf) ==
    /\ kind = "file"
    /\ h \in handles
    /\ pc[h] = "idle"
    /\ hist.left > 0
    /\ file' = [file EXCEPT !.lock = Some(h)]
    /\ hpos' = [hpos EXCEPT ![h] = pos]
    /\ pc' = [pc EXCEPT ![h] = "file_seek"]
    /\ call' = [call EXCEPT ![h] = [NoCall EXCEPT !.pos = pos, !.buf = buf]]
    /\ hist' = [hist EXCEPT !.left = @ - 1]
    /\ UNCHANGED <<kind, engine_vars, handles, file_length, last>>

\* impl Read for CloneableSeekableReader on a handle that stands at pos, line
\* 94: the file mutex is taken.
FileStartRead(h, pos, buf) ==
    /\ kind = "file"
    /\ h \in handles
    /\ pc[h] = "idle"
    /\ hist.left > 0
    /\ file.lock = None
    /\ file' = [file EXCEPT !.lock = Some(h)]
    /\ hpos' = [hpos EXCEPT ![h] = pos]
    /\ pc' = [pc EXCEPT ![h] = "file_seek"]
    /\ call' = [call EXCEPT ![h] = [NoCall EXCEPT !.pos = pos, !.buf = buf]]
    /\ hist' = [hist EXCEPT !.left = @ - 1]
    /\ UNCHANGED <<kind, engine_vars, handles, file_length, last>>

FileReadBegin(h, buf) == FileStartRead(h, hpos[h], buf)

\* seek(SeekFrom::Start(pos)) directly followed by read(buf) on the same
\* handle; the seek touches nothing but the handle (see FileSeek).
FileSeekAndRead(h, pos, buf) == FileStartRead(h, pos, buf)

\* Line 97: underlying_file.seek(SeekFrom::Start(self.pos))?.  A File refuses
\* an offset beyond i64::MAX and may fail for its own reasons.
FileSeekUnderlying(h) ==
    /\ pc[h] = "file_seek"
    /\ \E ok \in BOOLEAN :
         IF ok /\ hpos[h] >= 0
         THEN /\ file' = [file EXCEPT !.cursor = hpos[h]]
              /\ pc' = [pc EXCEPT ![h] = "file_read"]
              /\ UNCHANGED <<last, call>>
         ELSE /\ file' = [file EXCEPT !.lock = None]
              /\ pc' = [pc EXCEPT ![h] = "idle"]
              /\ last' = Ret(h, "read", "io", call[h].pos, 0, << >>,
                             "seek_failed")
              /\ call' = [call EXCEPT ![h] = NoCall]
    /\ UNCHANGED <<kind, engine_vars, handles, hpos, file_length, hist>>

\* Lines 98-104: one read of the underlying file at its cursor, which returns
\* any number of bytes up to the buffer's length and the end of the file (none
\* only when that is 0), or fails; the handle advances on Ok and the guard is
\* dropped.
FileReadUnderlying(h) ==
    /\ pc[h] = "file_read"
    /\ LET avail == Min(call[h].buf, Max(0, len - file.cursor))
       IN  \E n \in (0 - 1)..avail :
             /\ (n = 0) => (avail = 0)
             /\ IF n >= 0
                THEN /\ file' = [lock |-> None, cursor |-> file.cursor + n]
                     /\ hpos' = [hpos EXCEPT ![h] = @ + n]
                     /\ last' = Ret(h, "read", "ok", call[h].pos, n,
                                    Bytes(file.cursor, n), "file")
                ELSE /\ file' = [file EXCEPT !.lock = None]
                     /\ last' = Ret(h, "read", "io", call[h].pos, 0, << >>,
                                    "read_failed")
                     /\ UNCHANGED hpos
    /\ pc' = [pc EXCEPT ![h] = "idle"]
    /\ call' = [call EXCEPT ![h] = NoCall]
    /\ UNCHANGED <<kind, engine_vars, handles, file_length, hist>>

\* The match of impl Seek for CloneableSeekableReader (lines 109-124);
\* file_len is the length ascertain_file_length returns.
FileSeekTarget(pos, seek, file_len) ==
    CASE seek.from = "Start" -> [pos |-> seek.off, overflow |-> FALSE]
      [] seek.from = "End" ->
            [pos |-> file_len + seek.off,
             overflow |-> seek.off > 0 \/ file_len + seek.off < 0]
      [] seek.from = "Current" ->
            [pos |-> pos + seek.off, overflow |-> Overflows(pos, seek.off)]

\* impl Seek for CloneableSeekableReader.  An End seek on a handle that has not
\* memoized the length takes the file mutex to ask the file for it.
FileSeek(h, seek) ==
    /\ kind = "file"
    /\ h \in handles
    /\ pc[h] = "idle"
    /\ hist.left > 0
    /\ hist' = [hist EXCEPT !.left = @ - 1]
    /\ LET ascertain == seek.from = "End" /\ file_length[h] = None
           t         == FileSeekTarget(hpos[h], seek, len)
       IN  /\ ascertain => file.lock = None
           /\ file_length' = IF ascertain
                             THEN [file_length EXCEPT ![h] = Some(len)]
                             ELSE file_length
           /\ t.pos \in Positions
           /\ \E overflow_checks \in BOOLEAN :
                IF t.overflow /\ overflow_checks
                THEN /\ pc' = [pc EXCEPT ![h] = "panicked"]
                     /\ last' = Ret(h, "seek", "panic", hpos[h], 0, << >>,
                                    seek.from)
                     /\ UNCHANGED hpos
                ELSE /\ hpos' = [hpos EXCEPT ![h] = t.pos]
                     /\ last' = Ret(h, "seek", "ok", hpos[h], t.pos, << >>,
                                    seek.from)
                     /\ UNCHANGED pc
    /\ UNCHANGED <<kind, engine_vars, file, handles, call>>

\* ------------------------------------------------------------- specifications

\* Spec: threads read at positions of their choice (a seek from the start,
\* then the read), clone handles and change the access pattern.
Next ==
    \/ \E h \in Handles, pos \in 0..len, buf \in BufLens : SeekAndRead(h, pos, buf)
    \/ \E h \in Handles : CheckCache(h)
    \/ \E h \in Handles : Recheck(h)
    \/ \E h \in Handles : SpuriousWakeup(h)
    \/ \E h \in Handles : LockReader(h)
    \/ \E h \in Handles : OpenStream(h)
    \/ \E h \in Handles : FastForward(h)
    \/ \E h \in Handles : InsertBlock(h)
    \/ \E h \in Handles : FinalLookup(h)
    \/ \E h \in Handles : UnlockReader(h)
    \/ \E access_pattern \in AccessPatterns :
          set_expected_access_pattern(access_pattern)
    \/ \E h \in Handles, new \in Handles : Clone(h, new)
    \/ \E h \in Handles, pos \in 0..len, buf \in BufLens :
          FileSeekAndRead(h, pos, buf)
    \/ \E h \in Handles : FileSeekUnderlying(h)
    \/ \E h \in Handles : FileReadUnderlying(h)

Spec == Init /\ [][Next]_vars

\* SeekSpec: threads seek in every way SeekFrom allows, read where the seeks
\* have left them and clone handles.
SeekInit == InitWith(SeekOps)

SeekNext ==
    \/ \E h \in Handles, seek \in SeekFroms : HttpSeek(h, seek)
    \/ \E h \in Handles, seek \in SeekFroms : FileSeek(h, seek)
    \/ \E h \in Handles, new \in Handles : Clone(h, new)
    \/ \E h \in Handles, buf \in BufLens : ReadBegin(h, buf)
    \/ \E h \in Handles, buf \in BufLens : FileReadBegin(h, buf)
    \/ \E h \in Handles : CheckCache(h)
    \/ \E h \in Handles : Recheck(h)
    \/ \E h \in Handles : SpuriousWakeup(h)
    \/ \E h \in Handles : LockReader(h)
    \/ \E h \in Handles : OpenStream(h)
    \/ \E h \in Handles : FastForward(h)
    \/ \E h \in Handles : InsertBlock(h)
    \/ \E h \in Handles : FinalLookup(h)
    \/ \E h \in Handles : UnlockReader(h)
    \/ \E h \in Handles : FileSeekUnderlying(h)
    \/ \E h \in Handles : FileReadUnderlying(h)

SeekSpec == SeekInit /\ [][SeekNext]_vars

\* LiveSpec: workers read through an engine under RandomAccess with no
\* readahead limit, whose range fetcher and responses never fail.
LiveInit ==
    /\ InitWith(LiveOps)
    /\ kind = "http"
    /\ limit_arg = None
    /\ state.access_pattern = "RandomAccess"

FetchStream(h) == create_reader(h, {TRUE})

ReadStream(h) == read_exact(h, {TRUE})

LiveNext ==
    \/ \E h \in Handles, pos \in 0..len, buf \in BufLens : SeekAndRead(h, pos, buf)
    \/ \E h \in Handles : CheckCache(h)
    \/ \E h \in Handles : Recheck(h)
    \/ \E h \in Handles : SpuriousWakeup(h)
    \/ \E h \in Handles : LockReader(h)
    \/ \E h \in Handles : FetchStream(h)
    \/ \E h \in Handles : ReadStream(h)
    \/ \E h \in Handles : InsertBlock(h)
    \/ \E h \in Handles : FinalLookup(h)
    \/ \E h \in Handles : UnlockReader(h)
    \/ \E h \in Handles, new \in Handles : Clone(h, new)

\* What the scheduler and the mutexes guarantee a thread inside read: a thread
\* that can take its next step takes it.  A thread in Condvar::wait can take
\* none until it is notified; a wakeup with no notification may never come.
Proceed(h) ==
    \/ CheckCache(h)
    \/ Recheck(h)
    \/ LockReader(h)
    \/ FetchStream(h)
    \/ ReadStream(h)
    \/ InsertBlock(h)
    \/ FinalLookup(h)
    \/ UnlockReader(h)

LiveSpec ==
    LiveInit /\ [][LiveNext]_vars /\ \A h \in Handles : WF_vars(Proceed(h))

\* SeqSpec: a single worker reads on from offset 0, each read where the last
\* one left the handle.
SeqInit ==
    /\ InitWith(SeqOps)
    /\ kind = "http"

SeqNext ==
    \/ \E buf \in BufLens : ReadBegin(1, buf)
    \/ CheckCache(1)
    \/ Recheck(1)
    \/ SpuriousWakeup(1)
    \/ LockReader(1)
    \/ OpenStream(1)
    \/ FastForward(1)
    \/ InsertBlock(1)
    \/ FinalLookup(1)
    \/ UnlockReader(1)

SeqSpec == SeqInit /\ [][SeqNext]_vars

\* SoloSpec: a single worker reads at positions of its choice and changes the
\* access pattern between reads.
SoloInit ==
    /\ InitWith(SoloOps)
    /\ kind = "http"

SoloNext ==
    \/ \E pos \in 0..len, buf \in BufLens : SeekAndRead(1, pos, buf)
    \/ CheckCache(1)
    \/ Recheck(1)
    \/ SpuriousWakeup(1)
    \/ LockReader(1)
    \/ OpenStream(1)
    \/ FastForward(1)
    \/ InsertBlock(1)
    \/ FinalLookup(1)
    \/ UnlockReader(1)
    \/ \E access_pattern \in AccessPatterns :
          set_expected_access_pattern(access_pattern)

SoloSpec == SoloInit /\ [][SoloNext]_vars

\* ------------------------------------------------------------- properties

\* Where a thread stands between setting read_in_progress and clearing it.
FetcherRole == {"lock_reader", "open", "ff", "ff_insert", "insert_spin", "final"}

\* Where a thread stands while it holds the reader mutex.
HoldsReader == {"open", "ff", "ff_insert", "insert_spin", "final", "unlock_reader"}

\* C1: with two or more workers reading at arbitrary positions below len and a
\* range fetcher that never fails, every read call eventually returns.
C1_EveryReadReturns ==
    \A h \in Handles : (pc[h] # "idle") ~> (pc[h] = "idle")

\* C2: whenever a worker that claimed the fetcher role returns from read, by
\* success or by an error exit, read_in_progress is false unless another
\* worker has claimed the role since.
C2_FetcherExitClearsProgress ==
    [][\A h \in Handles :
          (pc[h] \in FetcherRole \cup {"unlock_reader"} /\ pc'[h] = "idle")
              => (state'.read_in_progress
                    => \E g \in Handles \ {h} : pc'[g] \in FetcherRole)]_vars

\* C3: at most one worker is in the fetcher role, and read_in_progress is set
\* while one is; at most one response is live; at most one worker is at work
\* on it, and that worker holds the reader mutex.
C3_SingleFetcher ==
    LET fetchers == {h \in Handles : pc[h] \in FetcherRole}
        readers  == {h \in Handles : pc[h] \in HoldsReader}
    IN  /\ Cardinality(fetchers) <= 1
        /\ (fetchers # {}) => state.read_in_progress
        /\ Cardinality(readers) <= 1
        /\ \A h \in readers : reader_lock = Some(h)
        /\ Cardinality(reader) <= 1

\* C3's case: one worker fetching from the live response, another waiting.
C3_Witness ==
    \E h \in Handles, g \in Handles :
        /\ pc[h] = "ff_insert"
        /\ pc[g] = "cv_wait"
        /\ reader # None

\* C4, as the code has it: every successful read at position p through a
\* SeekableHttpReader returns k bytes that are exactly bytes [p, p + k) of the
\* resource, with k <= the buffer's length, k >= 1 when the buffer is not empty
\* and k = 0 when it is.
C4_ReadsReturnResourceBytes ==
    [][\A h \in Handles :
          (kind = "http" /\ pc[h] # "idle" /\ pc'[h] = "idle"
             /\ last'.result = "ok")
              => /\ last'.h = h
                 /\ last'.op = "read"
                 /\ last'.start = call[h].pos
                 /\ last'.n = Len(last'.data)
                 /\ last'.n <= call[h].buf
                 /\ (call[h].buf > 0) => (last'.n >= 1)
                 /\ last'.start + last'.n <= len
                 /\ last'.data = Bytes(last'.start, last'.n)]_vars

\* C4's case: a read served from the middle of a cached block.
C4_Witness ==
    /\ kind = "http"
    /\ last.op = "read"
    /\ last.result = "ok"
    /\ last.via = "immediate"
    /\ last.start = 1
    /\ last.n = 1
    /\ last.data = Bytes(1, 1)

\* C4 as stated: every successful read returns k >= 1 bytes, bytes [p, p + k).
C4_EveryReadReturnsData ==
    (kind = "http" /\ last.op = "read" /\ last.result = "ok")
        => /\ last.n >= 1
           /\ last.data = Bytes(last.start, last.n)

\* C5: an engine constructed with readahead_limit = Some(L) keeps the limit
\* max(L, MAX_BLOCK), and State.current_size never exceeds it.
C5_CacheWithinLimit ==
    (kind = "http" /\ limit_arg # None)
        => /\ state.readahead_limit = Some(Max(Unwrap(limit_arg), MAX_BLOCK))
           /\ state.current_size <= Max(Unwrap(limit_arg), MAX_BLOCK)

\* C5's case: a limit below MAX_BLOCK, raised, has made the cache shrink.
C5_Witness ==
    /\ kind = "http"
    /\ limit_arg = Some(1)
    /\ state.readahead_limit = Some(MAX_BLOCK)
    /\ state.stats.cache_shrinks >= 2
    /\ state.current_size > 0

\* C6: for both kinds of handle, a read made at position s that returns Ok(k)
\* leaves the handle at s + k, and one that returns an error leaves it at s;
\* the handle stands at s for as long as the read runs.
C6_PositionAfterRead ==
    [][\A h \in Handles :
          (last' # last /\ last'.h = h /\ last'.op = "read"
             /\ last'.result # "panic")
              => /\ (pc[h] # "idle") => (hpos[h] = last'.start)
                 /\ hpos'[h] = last'.start
                        + (IF last'.result = "ok" THEN last'.n ELSE 0)]_vars

\* C6's case: a read at 2 has fetched two bytes and left its handle at 4.
C6_Witness ==
    /\ last.op = "read"
    /\ last.result = "ok"
    /\ last.via = "fetched"
    /\ last.start = 2
    /\ last.n = 2
    /\ hpos[last.h] = 4

\* C7: a clone starts at the cloner's position, and a step moves no handle but
\* the one whose call it belongs to.
C7_ClonesAreIndependent ==
    [][/\ \A h \in Handles, new \in Handles :
             Clone(h, new) => (hpos'[new] = hpos[h])
       /\ \A g \in Handles :
             (hpos'[g] # hpos[g])
                 => \/ pc'[g] # pc[g]
                    \/ (last' # last /\ last'.h = g)]_vars

\* C7's case: handle 2, cloned at 3, has read on to 5; handle 1 is still at 3.
C7_Witness ==
    /\ handles = {1, 2}
    /\ hpos[1] = 3
    /\ hpos[2] = 5
    /\ last.h = 2
    /\ last.op = "read"
    /\ last.start = 3

\* C8, as the code has it: num_http_streams is the number of responses opened
\* by reads that have passed their final lookup, plus the number of calls that
\* switched the access pattern to SequentialIsh, whether or not the
\* fetch_range(0) of the call succeeded.
C8_StreamsCounted ==
    LET pending == {h \in Handles : call[h].reader_created
                                        /\ pc[h] # "unlock_reader"}
    IN  (kind = "http")
            => state.stats.num_http_streams
                  = hist.opened - hist.lost - Cardinality(pending)
                        + hist.switches

\* C8's case: a read has rewound and both responses have been counted.
C8_Witness ==
    /\ kind = "http"
    /\ \A h \in Handles : pc[h] = "idle"
    /\ hist.rewinds = 1
    /\ hist.opened = 2
    /\ state.stats.num_http_streams = 2

\* C8 as stated: at all times num_http_streams is the number of rewinds, plus
\* one, plus the number of re-opens by set_expected_access_pattern.
C8_RewindsPlusOnePlusReopens ==
    (kind = "http")
        => state.stats.num_http_streams = hist.rewinds + 1 + hist.reopens

\* C9: a read at pos = len returns UnexpectedEof in the step that starts it,
\* whatever the engine is doing, and changes nothing in the engine nor where
\* any thread stands; the handle stays at len.
C9_ReadAtEndFails ==
    [][\A h \in Handles, buf \in BufLens :
          SeekAndRead(h, len, buf)
              => /\ last' = Ret(h, "read", "UnexpectedEof", len, 0, << >>, "eof")
                 /\ hpos'[h] = len
                 /\ UNCHANGED <<engine_vars, pc, call>>]_vars

\* C9's case: the read at len returned while another worker was fetching.
C9_Witness ==
    /\ last.op = "read"
    /\ last.result = "UnexpectedEof"
    /\ state.read_in_progress
    /\ \E g \in Handles \ {last.h} : pc[g] \in {"ff", "ff_insert"}

\* C10: a seek on a SeekableHttpReader (from start, from end or from current)
\* whose resulting position would be negative returns Unsupported and leaves
\* the handle, and everything else, unchanged.
C10_NegativeSeekRejected ==
    [][\A h \in Handles, seek \in SeekFroms :
          LET target == CASE seek.from = "Start" -> seek.off
                          [] seek.from = "End" -> len + seek.off
                          [] seek.from = "Current" -> hpos[h] + seek.off
          IN  (HttpSeek(h, seek) /\ hpos[h] >= 0 /\ target < 0)
                  => /\ last'.result = "Unsupported"
                     /\ UNCHANGED <<hpos, pc, engine_vars>>]_vars
\* C11: when a single worker has read the whole resource sequentially from
\* offset 0 to len, whatever the buffer sizes, the readahead limit and the
\* access pattern, exactly one HTTP stream has been opened and counted.
C11_OneStreamForSequentialRead ==
    (hpos[1] = len /\ pc[1] = "idle")
        => /\ state.stats.num_http_streams = 1
           /\ hist.opened = 1
           /\ hist.rewinds = 0

\* C11's case: the last byte was returned by the third read that had to fetch,
\* under a limit that made the cache shrink on the way.
C11_Witness ==
    /\ hpos[1] = len
    /\ pc[1] = "idle"
    /\ last.result = "ok"
    /\ last.start + last.n = len
    /\ limit_arg = Some(1)
    /\ state.stats.cache_misses = 3
    /\ state.stats.cache_shrinks >= 1
    /\ state.stats.num_http_streams = 1
\* Position p lies inside a block of the cache.
Covered(st, p) ==
    \E k \in DOMAIN st.cache : k <= p /\ p < k + Len(st.cache[k].data)

\* An engine under RandomAccess with no readahead limit, its mutex intact.
RandomUnlimited ==
    /\ kind = "http"
    /\ limit_arg = None
    /\ state.access_pattern = "RandomAccess"
    /\ ~poisoned

\* C12: under RandomAccess with no readahead limit a position covered by a
\* cached block stays covered, and every lookup of a read at such a position
\* returns the bytes from the cache: it opens no stream, does not increment
\* cache_misses and leaves the live response alone.
C12_CoveredReadsHitCache ==
    [][(RandomUnlimited /\ RandomUnlimited')
          => /\ \A p \in 0..(len - 1) :
                   Covered(state, p) => Covered(state', p)
             /\ \A h \in Handles :
                   (pc[h] \in {"lock_state", "cv_woken"} /\ pc'[h] # pc[h]
                      /\ Covered(state, call[h].pos))
                       => /\ pc'[h] = "idle"
                          /\ last'.h = h
                          /\ last'.result = "ok"
                          /\ last'.start = call[h].pos
                          /\ state'.stats.cache_hits
                                = state.stats.cache_hits + 1
                          /\ state'.stats.cache_misses
                                = state.stats.cache_misses
                          /\ state'.stats.num_http_streams
                                = state.stats.num_http_streams
                          /\ UNCHANGED reader
                          /\ hist'.opened = hist.opened
                          /\ hist'.rewinds = hist.rewinds
                          /\ hist'.lost = hist.lost]_vars

\* C12's case: a read at 0 again, after the read that fetched block [0, 2).
C12_Witness ==
    /\ RandomUnlimited
    /\ last.op = "read"
    /\ last.result = "ok"
    /\ last.via = "immediate"
    /\ last.start = 0
    /\ last.n = MAX_BLOCK
    /\ state.stats.cache_hits = 2
    /\ state.stats.cache_misses = 1
    /\ hist.opened = 1
    /\ reader # None
\* C13, as the code has it: a read that finds no live response opens one at
\* its own position pos, not at 0, so nothing below pos is fetched; a read at
\* a position that no block covers misses the cache, and if that position is
\* below the reader pos of the live response the response is discarded and
\* another one is opened at the read's position.
C13_StreamOpensAtPos ==
    [][\A h \in Handles :
          /\ (pc[h] = "open" /\ hist'.opened = hist.opened + 1)
                => /\ reader' = Some([stream |-> call[h].pos,
                                       pos |-> call[h].pos])
                   /\ state' = state
          /\ (pc[h] = "open" /\ pc'[h] # "open" /\ reader # None
                 /\ call[h].pos < Unwrap(reader).pos)
                => \/ /\ hist'.opened = hist.opened + 1
                      /\ hist'.rewinds = hist.rewinds + 1
                   \/ /\ reader' = None
                      /\ pc'[h] = "idle"
                      /\ last'.result = "Unsupported"
          /\ (pc[h] = "lock_state" /\ pc'[h] # "lock_state" /\ ~poisoned
                 /\ ~Covered(state, call[h].pos))
                => pc'[h] \in {"cv_wait", "lock_reader"}]_vars

\* C13's case: on a fresh engine a read at 4, then a read at 0: the second
\* read found nothing cached below 4, rewound and opened a second stream.
C13_Witness ==
    /\ RandomUnlimited
    /\ \A h \in Handles : pc[h] = "idle"
    /\ hist.opened = 2
    /\ hist.rewinds = 1
    /\ DOMAIN state.cache = {0, 4}
    /\ state.stats.num_http_streams = 2

\* C13 as stated: the first stream opens at offset 0 and fast-forwards, so
\* with that stream the only one opened every position below its reader pos
\* is in the cache.
C13_FirstStreamOpensAtZero ==
    (RandomUnlimited /\ hist.opened = 1 /\ hist.switches = 0
       /\ reader # None)
        => \A p \in 0..(Unwrap(reader).pos - 1) : Covered(state, p)

\* C14: a call of set_expected_access_pattern(SequentialIsh) on a quiescent
\* engine (no worker inside read, read_in_progress false) whose pattern was
\* RandomAccess leaves a newly opened response with reader pos 0 in place of
\* any response that was live, and num_http_streams one higher, the increment
\* standing for a stream that was opened at offset 0.
C14_SwitchReopensAtZero ==
    [][(set_expected_access_pattern("SequentialIsh")
          /\ ~state.read_in_progress
          /\ \A h \in Handles : pc[h] = "idle")
         => /\ reader' = Some([stream |-> 0, pos |-> 0])
            /\ hist'.reopens = hist.reopens + 1
            /\ state'.stats.num_http_streams
                  = state.stats.num_http_streams + 1
            /\ state'.stats.num_http_streams - state.stats.num_http_streams
                  = hist'.reopens - hist.reopens]_vars

\* C15: in a CloneableSeekableReader the seek of the shared file to a clone's
\* position and the read that follows are atomic with respect to the other
\* clones: at most one clone is between taking and dropping the file mutex,
\* when it is about to read the file's cursor is its own position, and every
\* successful read returns the file's bytes from the reading clone's position.
C15_SeekAndReadAtomic ==
    kind = "file"
      => /\ Cardinality({h \in Handles :
                           pc[h] \in {"file_seek", "file_read"}}) <= 1
         /\ \A h \in Handles :
               /\ (pc[h] \in {"file_seek", "file_read"})
                     => file.lock = Some(h)
               /\ (pc[h] = "file_read") => file.cursor = call[h].pos
         /\ (last.op = "read" /\ last.result = "ok")
               => last.data = Bytes(last.start, last.n)

\* C15's case: two clones have read from different positions, the clone last
\* to read got the bytes at its own position 3 while the other stands
\* elsewhere, having read from 0.
C15_Witness ==
    /\ kind = "file"
    /\ handles = {1, 2}
    /\ hist.left = 0
    /\ last.h = 2 /\ last.op = "read" /\ last.result = "ok"
    /\ last.start = 3 /\ last.n > 0
    /\ last.data = Bytes(3, last.n)
    /\ hpos[1] = 1
    /\ file.cursor = 3 + last.n

\* C16: whenever a fetcher has left its fast-forward loop and takes the state
\* mutex for the final lookup (the mutex not being poisoned), the cache holds
\* a block covering pos: read_from_cache returns Some and the expect() does
\* not panic, whatever the limit, the pattern and the other workers did.
C16_FinalLookupSucceeds ==
    [][\A h \in Handles :
          (pc[h] = "final" /\ pc'[h] # "final" /\ ~poisoned)
              => /\ read_from_cache(state, call[h].pos, call[h].buf).ret
                       # None
                 /\ pc'[h] = "unlock_reader"
                 /\ ~poisoned']_vars

\* The sum of CacheCell::len over the blocks of a cache.
RECURSIVE CacheBytes(_)
CacheBytes(cache) ==
    IF DOMAIN cache = {} THEN 0
    ELSE LET pos == MinOf(DOMAIN cache)
         IN  Len(cache[pos].data) + CacheBytes(CacheRemove(cache, pos))

\* C17: in every reachable state current_size is the sum of the lengths of
\* the blocks in the cache, after inserts (also at an offset that is already
\* a key), evictions and SequentialIsh discards.
C17_CurrentSizeIsSumOfBlocks ==
    state.current_size = CacheBytes(state.cache)

\* C18: in every reachable state the blocks of the cache do not overlap: of
\* two entries at offsets p1 < p2 the first ends at or before p2, also after
\* a rewind that opens a stream at an offset not aligned with cached blocks.
C18_BlocksDoNotOverlap ==
    \A p1, p2 \in DOMAIN state.cache :
        (p1 < p2) => (p1 + Len(state.cache[p1].data) <= p2)

\* C19: with a readahead limit set, State::insert(offset, block) does not
\* evict the block it inserts: when insert returns, the cache holds that
\* block at key offset, whatever else was cached.
C19_InsertKeepsNewBlock ==
    [][\A h \in Handles :
          (pc[h] = "ff_insert" /\ pc'[h] # "ff_insert" /\ ~poisoned
             /\ state.readahead_limit # None)
              => LET offset == Unwrap(reader).pos
                 IN  /\ state' = insert(state, offset, call[h].new_block)
                     /\ offset \in DOMAIN state'.cache
                     /\ state'.cache[offset].data = call[h].new_block]_vars

\* C20: State::insert always terminates.  With the limit set, the shrink loop
\* removes smallest-key entries only, deducts the length of each, counts one
\* cache_shrinks per removed entry, stops as soon as current_size is within
\* the limit and never iterates on an empty cache; without a limit nothing is
\* removed.
C20_InsertTerminates ==
    [][\A h \in Handles :
          (pc[h] = "ff_insert" /\ pc'[h] # "ff_insert" /\ ~poisoned)
              => LET offset  == Unwrap(reader).pos
                     placed  == CachePut(state.cache, offset,
                                         CacheCell_new(call[h].new_block))
                     removed == DOMAIN placed \ DOMAIN state'.cache
                     limit   == state.readahead_limit
                 IN  /\ pc'[h] = "ff"
                     /\ state_lock' = None
                     /\ DOMAIN state'.cache \subseteq DOMAIN placed
                     /\ \A k \in DOMAIN state'.cache :
                           state'.cache[k] = placed[k]
                     /\ \A r \in removed, k \in DOMAIN state'.cache : r < k
                     /\ state'.stats.cache_shrinks
                           = state.stats.cache_shrinks + Cardinality(removed)
                     /\ state'.current_size
                           = state.current_size + Len(call[h].new_block)
                             - (CacheBytes(placed) - CacheBytes(state'.cache))
                     /\ (limit = None) => removed = {}
                     /\ (limit # None)
                           => /\ state'.current_size <= Unwrap(limit)
                              /\ (removed # {})
                                    => LET latest == CHOOSE r \in removed :
                                             \A q \in removed : q <= r
                                       IN  state'.current_size
                                             + Len(placed[latest].data)
                                               > Unwrap(limit)]_vars

\* C20's case: under the limit 2 * MAX_BLOCK the blocks at 0 and at MAX_BLOCK
\* fill the cache, and the insert of the last block has removed the block at
\* 0 and returned.
C20_Witness ==
    /\ state.readahead_limit = Some(2 * MAX_BLOCK)
    /\ pc[1] = "ff"
    /\ reader # None /\ Unwrap(reader).pos = len
    /\ DOMAIN state.cache = {MAX_BLOCK, 2 * MAX_BLOCK}
    /\ state.stats.cache_shrinks = 1
    /\ state.current_size = CacheBytes(state.cache)

\* C21: for every block in the cache, in every reachable state and under
\* either access pattern, bytes_read is at most the block's length, also when
\* the same bytes are read more than once or by several workers.
C21_BytesReadWithinBlock ==
    \A k \in DOMAIN state.cache :
        state.cache[k].bytes_read <= Len(state.cache[k].data)

\* C22: under SequentialIsh a cache lookup removes a block only when every
\* byte of the block has been returned to some reader, by this lookup or by
\* an earlier one, also when a sub-range of the block is read more than once.
C22_DiscardOnlyWhenAllReturned ==
    [][\A h \in Handles :
          (pc[h] \in {"lock_state", "cv_woken", "final"} /\ pc'[h] # pc[h]
             /\ state.access_pattern = "SequentialIsh")
              => \A k \in DOMAIN state.cache \ DOMAIN state'.cache :
                    \A p \in k..(k + Len(state.cache[k].data) - 1) :
                        p \in hist'.served]_vars

\* C23: a worker woken from the condition variable looks into the cache again
\* with the state mutex held.  If its pos is covered it returns the cached
\* bytes and claims nothing: cache_misses, read_in_progress, the reader mutex
\* and the live response stay as they are and no stream is opened.  If pos is
\* not covered and read_in_progress is true it waits again.  It claims the
\* fetcher role, counting one miss, only on a miss with read_in_progress
\* false.
C23_WokenWaiterRechecks ==
    [][\A h \in Handles :
          (pc[h] = "cv_woken" /\ pc'[h] # "cv_woken" /\ ~poisoned)
              => LET pos == call[h].pos
                 IN  /\ state_lock = None
                     /\ Covered(state, pos)
                           => /\ pc'[h] = "idle"
                              /\ last'.h = h /\ last'.result = "ok"
                              /\ last'.via = "deferred"
                              /\ last'.data = Bytes(pos, last'.n)
                              /\ hpos'[h] = pos + last'.n
                              /\ state'.stats.cache_misses
                                    = state.stats.cache_misses
                              /\ state'.stats.cache_hits
                                    = state.stats.cache_hits + 1
                              /\ state'.read_in_progress
                                    = state.read_in_progress
                              /\ UNCHANGED <<reader, reader_lock, state_lock>>
                              /\ hist'.opened = hist.opened
                     /\ (~Covered(state, pos) /\ state.read_in_progress)
                           => /\ pc'[h] = "cv_wait"
                              /\ UNCHANGED <<state, reader, reader_lock,
                                             state_lock, last, hpos>>
                     /\ (~Covered(state, pos) /\ ~state.read_in_progress)
                           => /\ pc'[h] = "lock_reader"
                              /\ state'.read_in_progress
                              /\ state'.stats.cache_misses
                                    = state.stats.cache_misses + 1
                              /\ state_lock' = Some(h)
                     /\ (pc'[h] = "lock_reader")
                           => (~Covered(state, pos)
                                 /\ ~state.read_in_progress)]_vars

\* C23's case: a waiter woken by a deposit has returned bytes from the cache
\* while the fetcher that deposited them is still at work on the stream.
C23_Witness ==
    /\ last.op = "read" /\ last.result = "ok" /\ last.via = "deferred"
    /\ last.n > 0
    /\ state.read_in_progress
    /\ \E g \in Handles \ {last.h} : pc[g] \in {"ff", "ff_insert", "final"}
    /\ pc[last.h] = "idle"
    /\ state.stats.cache_misses = 1

\* C24, as the code has it: the two mutexes are taken in both orders.  The
\* worker that claims the fetcher role takes the reader mutex while it holds
\* the state mutex (state first) and drops the state guard at once; the
\* fetcher, holding the reader mutex ever since, takes the state mutex again
\* for each insert and for the final lookup (reader first).  The state mutex
\* is not held while the fetcher opens the stream or waits in read_exact, so
\* other workers can look into the cache meanwhile.
C24_LockOrders ==
    [][/\ \A h \in Handles :
            /\ (reader_lock # Some(h) /\ reader_lock' = Some(h))
                  => (pc[h] = "lock_reader" /\ state_lock = Some(h)
                        /\ state_lock' = None)
            /\ (pc[h] \in {"ff_insert", "final"} /\ pc'[h] # pc[h])
                  => (reader_lock = Some(h) /\ state_lock = None)
            /\ (pc'[h] \in {"open", "ff"})
                  => (reader_lock' = Some(h) /\ state_lock' = None)
            /\ (state_lock' = Some(h))
                  => pc'[h] \in {"lock_reader", "insert_spin"}
       /\ (\E g \in Handles : pc[g] \in {"open", "ff"})
            => \A h \in Handles :
                  (pc[h] = "lock_state") => ENABLED CheckCache(h)]_vars

\* C24's case: the first fetcher stands in its fast-forward loop with the
\* reader mutex, and another worker has meanwhile looked into the cache and
\* returned the bytes of the block just deposited.
C24_Witness ==
    /\ last.op = "read" /\ last.result = "ok" /\ last.via = "immediate"
    /\ last.n > 0
    /\ \E g \in Handles \ {last.h} :
          /\ pc[g] = "ff"
          /\ reader_lock = Some(g)
    /\ state_lock = None
    /\ state.read_in_progress
    /\ state.stats.cache_misses = 1
    /\ state.stats.cache_hits = 1

\* C24 as stated: a worker that takes the state mutex does not hold the reader
\* mutex, so that whoever holds both took the state mutex first.
C24_StateBeforeReader ==
    [][\A h \in Handles :
          (pc[h] \in {"lock_state", "cv_woken", "ff_insert", "final"}
             /\ pc'[h] # pc[h])
              => reader_lock # Some(h)]_vars

\* What a lookup step of worker h hands to the caller: the count returned and
\* the bytes copied into the buffer.
Handed(h) ==
    IF pc[h] = "final"
    THEN [n |-> call'[h].bytes_read, data |-> call'[h].data]
    ELSE [n |-> last'.n, data |-> last'.data]

\* The keys of the blocks of a cache that cover pos.
Covering(cache, pos) ==
    {k \in DOMAIN cache : k <= pos /\ pos - k < Len(cache[k].data)}

C26_FastForwardLoop ==
    [][\A h \in Handles :
          LET pos == call[h].pos
          IN  /\ (pc[h] = "open" /\ pc'[h] = "ff")
                    => /\ pos < len
                       /\ Unwrap(reader').pos <= pos
              /\ (pc[h] = "ff" /\ pc'[h] = "ff_insert")
                    => LET cursor == Unwrap(reader).pos
                       IN  /\ cursor <= pos
                           /\ Len(call'[h].new_block)
                                 = Min(MAX_BLOCK, len - cursor)
                           /\ Len(call'[h].new_block) > 0
                           /\ call'[h].new_block
                                 = Bytes(cursor, Len(call'[h].new_block))
                           /\ Unwrap(reader').pos = cursor
              /\ (pc[h] = "ff_insert" /\ pc'[h] = "ff")
                    => LET cursor == Unwrap(reader).pos
                       IN  /\ state' = insert(state, cursor,
                                              call[h].new_block)
                           /\ Unwrap(reader').pos
                                 = cursor + Len(call[h].new_block)
                           /\ Unwrap(reader').pos > cursor
                           /\ Unwrap(reader').pos <= len
              /\ (pc[h] = "ff" /\ pc'[h] = "final")
                    => /\ Unwrap(reader).pos > pos
                       /\ Unwrap(reader).pos <= len
                       /\ reader' = reader
              /\ (pc[h] \in {"ff", "ff_insert"}
                     /\ pc'[h] \notin {"ff", "ff_insert", "final"})
                    => \/ /\ pc[h] = "ff"
                          /\ pc'[h] = "idle"
                          /\ last'.result = "io"
                          /\ Unwrap(reader).pos <= pos
                       \/ /\ pc[h] = "ff_insert"
                          /\ pc'[h] = "panicked"
                          /\ poisoned]_vars

\* C26's case: a fetcher reading at 2 * MAX_BLOCK on a response whose cursor
\* stood at MAX_BLOCK has run the loop twice, deposited a full block and the
\* short last block, and left the loop with the cursor at len.
C26_Witness ==
    \E h \in Handles :
        /\ pc[h] = "final"
        /\ call[h].pos = 2 * MAX_BLOCK
        /\ ~call[h].reader_created
        /\ reader # None /\ Unwrap(reader).pos = len
        /\ {MAX_BLOCK, 2 * MAX_BLOCK} \subseteq DOMAIN state.cache
        /\ Len(state.cache[2 * MAX_BLOCK].data) = len - 2 * MAX_BLOCK
        /\ hist.opened = 1

\* C26 as stated: a fetcher with pos < len leaves the fast-forward loop only
\* with cursor > pos.
C26_LoopEndsBeyondPos ==
    [][\A h \in Handles :
          (pc[h] \in {"ff", "ff_insert"} /\ pc'[h] \notin {"ff", "ff_insert"}
             /\ call[h].pos < len)
              => /\ pc'[h] = "final"
                 /\ Unwrap(reader').pos > call[h].pos]_vars

=============================================================================
